---- MODULE Spec2Model ----
(***************************************************************************)
(* Model of the Fastly power tools of .github/workflows: the reflective    *)
(* operation dispatcher of main.py and the append-only logger of logger.py.*)
(*                                                                         *)
(* File contents and strings are sequences of symbols.  A symbol is one    *)
(* byte (newline, space, carriage return, a plain character, a byte that   *)
(* is not valid UTF-8) or a newline-free, non-empty piece of text that the *)
(* code only ever handles as a whole (a formatted prefix, a message).      *)
(* The tail reader distinguishes newline bytes from all others and nothing *)
(* else, so a piece of text stands for any of its spellings.               *)
(*                                                                         *)
(* Four state machines share the variables:                                *)
(*   Spec       a script calling the functions of logger.py, one call per  *)
(*              step, on a file system that starts without a log or with   *)
(*              an empty one;                                              *)
(*   SpecMain   one run of main(): a namespace from parse_arguments(), a   *)
(*              handler with its declared parameter names and its outcome; *)
(*   SpecTail   last_line_of_file on every file of a few bytes;            *)
(*   SpecParse  parse_key_value_pairs on every short string.               *)
(* The handlers of fastly.py, the echo of each entry on standard output,   *)
(* remove_old_files and print_value_info are not modelled.                 *)
(***************************************************************************)
EXTENDS Integers, Sequences, FiniteSets, TLC

VARIABLES
    fs,         \* the file system: file name -> [exists, data]
    hist,       \* the logger calls made so far, oldest first (observation)
    pc,         \* the process: "ready", "exited" (main.py), "raised"
    run,        \* main.py: what the last run of main() was given and did
    tail_out,   \* last_line_of_file applied to the log file
    pairs_str,  \* parse_key_value_pairs: its argument
    parsed      \* parse_key_value_pairs: its outcome

vars == <<fs, hist, pc, run, tail_out, pairs_str, parsed>>

----------------------------------------------------------------------------
\* Bounds of the model.

\* Longest file content the tail reader is tried on, in bytes.
MaxFileLen == 4
\* Longest argument string given to parse_key_value_pairs, in characters.
MaxStrLen == 7
\* Number of logger calls in one behaviour.
MaxCalls == 3

----------------------------------------------------------------------------
\* Symbols.

Tok(k, f, n, x) == [k |-> k, f |-> f, n |-> n, x |-> x]

NL == Tok("nl", <<>>, 0, "")          \* "\n"
SP == Tok("sp", <<>>, 0, "")          \* " "
CR == Tok("cr", <<>>, 0, "")          \* "\r"
COMMA == Tok("comma", <<>>, 0, "")    \* ","
BadByte == Tok("bad", <<>>, 0, "")    \* a byte that is not valid UTF-8
Ch(c) == Tok("ch", <<>>, 0, c)        \* a plain character, or a plain word

\* "[MM/DD/YYYY HH:MM:SS AM/PM TZ, <filename>: <line_no>] "
Prefix(filename, line_no) == Tok("prefix", filename, line_no, "")
\* "  Error [File: <filename> Line: <line_num>] - "
ErrorHead(filename, line_num) == Tok("error", filename, line_num, "")
\* "Starting Script: <filename>" and "Ending Script: <filename>"
Starting(filename) == Tok("starting", filename, 0, "")
Ending(filename) == Tok("ending", filename, 0, "")
\* 'Creating File: "<filename>"' and 'Writing Data to: "<filename>"'
Creating(filename) == Tok("creating", <<>>, 0, filename)
Notice(filename) == Tok("notice", <<>>, 0, filename)
\* "Operation, <name>, has failed."
HasFailed(name) == Tok("failed", <<>>, 0, name)
\* "Operation, '<name>', does not exist or is unavailable."
DoesNotExist(name) == Tok("missing", <<>>, 0, name)

LOGFILE == "log.txt"
START_SCRIPT == << Tok("banner", <<>>, 0, "Start of Script") >>

----------------------------------------------------------------------------
\* Strings.

\* Faulty variant of `a in b`: the two strings are the same.
IsWholeString(a, b) == a = b

\* Python's `a in b` on strings.
IsSubstring(a, b) ==
    \E i \in 0..(Len(b) - Len(a)) : SubSeq(b, i + 1, i + Len(a)) = a

IsPrefixOf(a, b) == Len(a) <= Len(b) /\ SubSeq(b, 1, Len(a)) = a

\* Python's str.split(sep) for a one-character separator: the pieces
\* between the occurrences of sep, at least one piece.
RECURSIVE SplitFrom(_, _, _, _)
SplitFrom(s, sep, i, piece) ==
    IF i > Len(s) THEN << piece >>
    ELSE IF s[i] = sep THEN << piece >> \o SplitFrom(s, sep, i + 1, <<>>)
    ELSE SplitFrom(s, sep, i + 1, Append(piece, s[i]))

Split(s, sep) == SplitFrom(s, sep, 1, <<>>)

Last(s) == s[Len(s)]

RECURSIVE Count(_, _)
Count(x, s) ==
    IF s = <<>> THEN 0
    ELSE (IF s[1] = x THEN 1 ELSE 0) + Count(x, Tail(s))

----------------------------------------------------------------------------
\* Files.

Absent == [exists |-> FALSE, data |-> <<>>]
File(data) == [exists |-> TRUE, data |-> data]

\* open(filename, "a") followed by write(text).
AppendTo(fsys, filename, text) ==
    [fsys EXCEPT ![filename] = File(fsys[filename].data \o text)]

\* open(filename, "w").
Truncate(fsys, filename) == [fsys EXCEPT ![filename] = File(<<>>)]

Returned(value) == [exc |-> "", value |-> value]
Raised(exc) == [exc |-> exc, value |-> <<>>]

----------------------------------------------------------------------------
\* logger.last_line_of_file.

\* The loop of lines 98-99, entered with the read position at pos (bytes
\* before it: pos).  read(1) takes byte pos+1; a newline ends the loop with
\* the position after it; otherwise seek(-2, SEEK_CUR) moves to pos-1, and
\* a negative target raises OSError, which line 101 turns into seek(0).
RECURSIVE ScanBack(_, _)
ScanBack(data, pos) ==
    IF data[pos + 1] = NL THEN pos + 1
    ELSE IF pos - 1 < 0 THEN 0
    ELSE ScanBack(data, pos - 1)

\* seek(-2, SEEK_END) of line 97, then the loop.
SeekLastLine(data) ==
    IF Len(data) - 2 < 0 THEN 0 ELSE ScanBack(data, Len(data) - 2)

\* f.readline() from position pos: up to and including the next newline.
RECURSIVE ReadLine(_, _)
ReadLine(data, pos) ==
    IF pos >= Len(data) THEN <<>>
    ELSE IF data[pos + 1] = NL THEN << NL >>
    ELSE << data[pos + 1] >> \o ReadLine(data, pos + 1)

\* bytes.decode(): UTF-8, strict.
Decode(bytes) ==
    IF \E i \in 1..Len(bytes) : bytes[i] = BadByte
    THEN Raised("UnicodeDecodeError")
    ELSE Returned(bytes)

\* Faulty variant of last_line_of_file: everything the file holds.
WholeFileAsLastLine(fsys, filename) ==
    IF ~fsys[filename].exists THEN Raised("FileNotFoundError")
    ELSE Decode(fsys[filename].data)

\* Faulty variant of last_line_of_file: the last line without the newline
\* that ends it.
StrippedLastLine(fsys, filename) ==
    IF ~fsys[filename].exists THEN Raised("FileNotFoundError")
    ELSE LET data == fsys[filename].data
             line == ReadLine(data, SeekLastLine(data))
         IN  Decode(IF line # <<>> /\ Last(line) = NL
                    THEN SubSeq(line, 1, Len(line) - 1) ELSE line)

last_line_of_file(fsys, filename) ==
    IF ~fsys[filename].exists THEN Raised("FileNotFoundError")
    ELSE LET data == fsys[filename].data
         IN  Decode(ReadLine(data, SeekLastLine(data)))

----------------------------------------------------------------------------
\* main.parse_key_value_pairs.

\* dict(iterable of lists): every element must have two items, else
\* ValueError; a later item with the same key replaces the earlier one.
RECURSIVE DictFrom(_, _, _)
DictFrom(items, i, d) ==
    IF i > Len(items) THEN [exc |-> "", value |-> d]
    ELSE IF Len(items[i]) # 2 THEN [exc |-> "ValueError", value |-> d]
    ELSE DictFrom(items, i + 1,
                  [k \in DOMAIN d \cup {items[i][1]} |->
                       IF k = items[i][1] THEN items[i][2] ELSE d[k]])

EmptyDict == [k \in {} |-> <<>>]

\* Faulty variant of dict(): the first item with a key is kept.
RECURSIVE DictKeepFirst(_, _, _)
DictKeepFirst(items, i, d) ==
    IF i > Len(items) THEN [exc |-> "", value |-> d]
    ELSE IF Len(items[i]) # 2 THEN [exc |-> "ValueError", value |-> d]
    ELSE DictKeepFirst(items, i + 1,
                  [k \in DOMAIN d \cup {items[i][1]} |->
                       IF k \in DOMAIN d THEN d[k] ELSE items[i][2]])

PairItems(s) ==
    LET pairs == Split(s, ",")
    IN  [i \in 1..Len(pairs) |-> Split(pairs[i], ":")]

parse_keep_first(s) ==
    LET r == DictKeepFirst(PairItems(s), 1, EmptyDict)
    IN  IF r.exc # "" THEN [exc |-> "ArgumentTypeError", value |-> EmptyDict]
        ELSE r

parse_key_value_pairs(s) ==
    LET r == DictFrom(PairItems(s), 1, EmptyDict)
    IN  IF r.exc # "" THEN [exc |-> "ArgumentTypeError", value |-> EmptyDict]
        ELSE r

----------------------------------------------------------------------------
\* The call stack.

\* A frame of traceback.extract_stack(): the source path and the line the
\* frame is executing.  A path is a sequence of names and separators.
Frame(path, line) == [path |-> path, line |-> line]

LoggerPath == << "workflows", "/", "logger.py" >>
MainPath == << "workflows", "/", "main.py" >>
FastlyPath == << "workflows", "\\", "fastly.py" >>

\* filename.split("/")[-1], then .split("\\")[-1]
BaseName(path) == Last(Split(Last(Split(path, "/")), "\\"))

\* logger.line_number(), called in the frame on top of `stack`.
line_number(stack) == Last(stack).line

\* stack[-2] of the stack captured inside a logger function entered from
\* `stack`; `line` is where that function calls traceback.extract_stack().
CallerFrame(stack, line) ==
    LET captured == Append(stack, Frame(LoggerPath, line))
    IN  captured[Len(captured) - 1]

----------------------------------------------------------------------------
\* logger.py.  Every function takes the file system and the stack it is
\* called from, and yields the file system it leaves behind.

write_to_logfile(fsys, stack, log_text) ==
    LET caller == CallerFrame(stack, 32)
        filename == BaseName(caller.path)
        log == IF log_text # <<>>
               THEN << Prefix(filename, caller.line) >> \o log_text \o << SP >>
               ELSE IF log_text = START_SCRIPT THEN log_text
               ELSE <<>>
    IN  AppendTo(fsys, LOGFILE, << NL >> \o log)

\* Faulty variant of error_handler: the error is formatted, not logged.
FormatErrorOnly(fsys, stack, error, line_num) ==
    [fs |-> fsys,
     value |-> << ErrorHead(BaseName(CallerFrame(stack, 49).path), line_num) >>
               \o error]

\* Yields the formatted error as well.
error_handler(fsys, stack, error, line_num) ==
    LET filename == BaseName(CallerFrame(stack, 49).path)
        e == << ErrorHead(filename, line_num) >> \o error
    IN  [fs |-> write_to_logfile(fsys, Append(stack, Frame(LoggerPath, 55)), e),
         value |-> e]

engage(fsys, stack) ==
    LET filename == BaseName(CallerFrame(stack, 60).path)
    IN  write_to_logfile(fsys, Append(stack, Frame(LoggerPath, 64)),
                         << Starting(filename) >>)

end_of_line(fsys, stack) ==
    LET filename == BaseName(CallerFrame(stack, 68).path)
    IN  write_to_logfile(fsys, Append(stack, Frame(LoggerPath, 72)),
                         << Ending(filename) >>)

create_new_output_file(fsys, stack, filename) ==
    Truncate(write_to_logfile(fsys, Append(stack, Frame(LoggerPath, 76)),
                              << Creating(filename) >>),
             filename)

\* csv.writer(...).writerow(entry): the fields joined by commas, then
\* "\r\n".  The fields modelled need no quoting.
RECURSIVE JoinFields(_)
JoinFields(entry) ==
    IF entry = <<>> THEN <<>>
    ELSE IF Len(entry) = 1 THEN << Ch(entry[1]) >>
    ELSE << Ch(entry[1]), COMMA >> \o JoinFields(Tail(entry))

CsvRow(entry) == JoinFields(entry) \o << CR, NL >>

\* A field the data file's encoding cannot represent.
Unencodable == "\\udc80"
Encodable(entry) == \A i \in 1..Len(entry) : entry[i] # Unencodable

\* writer.writerow("UnicodeEncodeError"): a string is a row of its characters.
Placeholder ==
    << "U", "n", "i", "c", "o", "d", "e", "E", "n", "c", "o", "d", "e",
       "E", "r", "r", "o", "r" >>

\* Yields the exception raised, if any: the log is read before anything is
\* written, and open(..., "rb") is outside the try of last_line_of_file.
write_to_file(fsys, stack, filename, entry) ==
    LET log_text == << Notice(filename) >>
        tail == last_line_of_file(fsys, LOGFILE)
        logged == IF ~IsSubstring(log_text, tail.value)
                  THEN write_to_logfile(fsys, Append(stack, Frame(LoggerPath, 85)),
                                        log_text)
                  ELSE fsys
        row == IF Encodable(entry) THEN CsvRow(entry) ELSE CsvRow(Placeholder)
    IN  IF tail.exc # "" THEN [fs |-> fsys, exc |-> tail.exc]
        ELSE [fs |-> AppendTo(logged, filename, row), exc |-> ""]

----------------------------------------------------------------------------
\* main.py.

\* The keys of the registry.
OPERATIONS ==
    { "add_entries_to_dictionary", "remove_entries_from_dictionary",
      "add_entries_to_acl", "remove_all_acl_entries", "remove_acl_entries",
      "backup_fastly_dictionary", "backup_acl",
      "remove_old_fastly_dictionary_entries", "remove_all_dictionary_entries" }

\* The attributes of the namespace parse_arguments() returns; argparse
\* sets every one of them, to None when the option was not given.
RequiredArgs == { "operation", "api_key", "service_name" }
OptionalArgs ==
    { "dictionary_name", "acl_name", "input_dictionary", "dictionary_items",
      "ips" }
ArgNames == RequiredArgs \cup OptionalArgs

None == [none |-> TRUE, v |-> ""]
Value(v) == [none |-> FALSE, v |-> v]

\* What a handler's call does.  The handlers are the functions of fastly.py;
\* main() sees of them only the declared parameter names and the outcome.
HandlerOutcomes == { "True", "False", "None", "raise" }
\* Faulty variant of `not operation_success`: `operation_success is False`.
OnlyFalse(outcome) == outcome = "False"

\* `not operation_success`
Falsy(outcome) == outcome \in { "False", "None" }

\* Faulty variant: a declared name is passed whatever its value, None too.
ArgumentsAlsoNone(parameters, args) ==
    [p \in { q \in parameters : q \in DOMAIN args } |-> args[p]]

\* Lines 49-55: the keyword arguments main() prepares.
operation_arguments(parameters, args) ==
    [p \in { q \in parameters : q \in DOMAIN args /\ ~args[q].none } |->
        args[p]]

\* The stack main() runs on: the module's last line called it.
MainStack(line) == << Frame(MainPath, 133), Frame(MainPath, line) >>

\* What one logger call did to the log: the text it added (when it kept
\* what was there) and the exception it ended with.
LogOf(fsys) == fsys[LOGFILE].data

Added(before, after) ==
    IF IsPrefixOf(LogOf(before), LogOf(after))
    THEN SubSeq(LogOf(after), Len(LogOf(before)) + 1, Len(LogOf(after)))
    ELSE <<>>

\* main(): yields the file system, the keyword arguments of every call of
\* the handler, and the exception main() ends with ("" when it returns).
\* Whatever is raised inside the try is raised again, wrapped.
main(fsys, args, parameters, outcome) ==
    LET name == args["operation"].v
        kw == operation_arguments(parameters, args)
        failed == error_handler(fsys, MainStack(62), << HasFailed(name) >>,
                                line_number(MainStack(62)))
        missing == error_handler(fsys, MainStack(70), << DoesNotExist(name) >>,
                                 line_number(MainStack(70)))
    IN  IF name \in OPERATIONS
        THEN IF outcome = "raise"
             THEN [fs |-> fsys, calls |-> << kw >>, exc |-> "Exception"]
             ELSE IF Falsy(outcome)
             THEN [fs |-> failed.fs, calls |-> << kw >>, exc |-> "Exception"]
             ELSE [fs |-> fsys, calls |-> << kw >>, exc |-> ""]
        ELSE [fs |-> missing.fs, calls |-> <<>>, exc |-> "Exception"]

----------------------------------------------------------------------------
\* The state machines.

FileNames == { LOGFILE, "out.csv" }

NoFiles == [n \in FileNames |-> Absent]

IdleRun == [args |-> <<>>, parameters |-> {}, outcome |-> "", calls |-> <<>>,
            before |-> <<>>, exc |-> ""]
IdleResult == [done |-> FALSE, exc |-> "", value |-> <<>>]

Done(r) == [done |-> TRUE, exc |-> r.exc, value |-> r.value]

\* A line an earlier run left in the log.
EarlierLine == << NL, Prefix(<< "fastly.py" >>, 7), Ch("done"), SP >>

StringsOver(alphabet, n) == UNION { [1..m -> alphabet] : m \in 0..n }

------------------------------------------------------------
\* The logger, called from the scripts that use it.

\* The stacks the logger is called from: a call made by main(), and a call
\* made by a handler of fastly.py that main() called.
CallStacks ==
    { MainStack(70),
      << Frame(MainPath, 133), Frame(MainPath, 59), Frame(FastlyPath, 21) >> }

Texts ==
    { <<>>, << Ch("x") >>, START_SCRIPT, << Notice("out.csv") >>,
      << Ch("see"), Notice("out.csv") >> }

Errors == { << Ch("boom") >> }

Entries == { << "1", "2" >>, << "1", Unencodable >> }

\* What a call is seen to do: the text it added to the log, whether the
\* log kept what it held, how many notices for `filename` and how many
\* rows (a row ends "\r\n") it added to `filename`.
Observed(op, stack, filename, text, exc, before, after) ==
    [op |-> op, site |-> Last(stack), filename |-> filename, text |-> text,
     exc |-> exc,
     added |-> Added(before, after),
     kept |-> IsPrefixOf(LogOf(before), LogOf(after)),
     notices |-> IF filename = "" THEN 0
                 ELSE Count(Notice(filename), LogOf(after))
                      - Count(Notice(filename), LogOf(before)),
     rows |-> IF filename = "" THEN 0
              ELSE Count(CR, after[filename].data)
                   - Count(CR, before[filename].data)]

\* A call is possible while the process runs.  Nothing in the scripts
\* catches what the logger raises: an exception ends the process.
CanCall == pc = "ready" /\ Len(hist) < MaxCalls

WriteToLogfile ==
    /\ CanCall
    /\ \E stack \in CallStacks, text \in Texts :
        LET after == write_to_logfile(fs, stack, text)
        IN  /\ fs' = after
            /\ hist' = Append(hist, Observed("write_to_logfile", stack, "",
                                             text, "", fs, after))
    /\ UNCHANGED <<pc, run, tail_out, pairs_str, parsed>>

ErrorHandler ==
    /\ CanCall
    /\ \E stack \in CallStacks, error \in Errors :
        LET after == error_handler(fs, stack, error, line_number(stack)).fs
        IN  /\ fs' = after
            /\ hist' = Append(hist, Observed("error_handler", stack, "",
                                             error, "", fs, after))
    /\ UNCHANGED <<pc, run, tail_out, pairs_str, parsed>>

Engage ==
    /\ CanCall
    /\ \E stack \in CallStacks :
        LET after == engage(fs, stack)
        IN  /\ fs' = after
            /\ hist' = Append(hist, Observed("engage", stack, "", <<>>, "",
                                             fs, after))
    /\ UNCHANGED <<pc, run, tail_out, pairs_str, parsed>>

EndOfLine ==
    /\ CanCall
    /\ \E stack \in CallStacks :
        LET after == end_of_line(fs, stack)
        IN  /\ fs' = after
            /\ hist' = Append(hist, Observed("end_of_line", stack, "", <<>>,
                                             "", fs, after))
    /\ UNCHANGED <<pc, run, tail_out, pairs_str, parsed>>

CreateNewOutputFile ==
    /\ CanCall
    /\ \E stack \in CallStacks, filename \in FileNames :
        LET after == create_new_output_file(fs, stack, filename)
        IN  /\ fs' = after
            /\ hist' = Append(hist, Observed("create_new_output_file", stack,
                                             filename, <<>>, "", fs, after))
    /\ UNCHANGED <<pc, run, tail_out, pairs_str, parsed>>

WriteToFile ==
    /\ CanCall
    /\ \E stack \in CallStacks, filename \in FileNames, entry \in Entries :
        LET r == write_to_file(fs, stack, filename, entry)
        IN  /\ fs' = r.fs
            /\ hist' = Append(hist, Observed("write_to_file", stack, filename,
                                             <<>>, r.exc, fs, r.fs))
            /\ pc' = IF r.exc # "" THEN "raised" ELSE pc
    /\ UNCHANGED <<run, tail_out, pairs_str, parsed>>

Init ==
    /\ fs \in { NoFiles, [NoFiles EXCEPT ![LOGFILE] = File(<<>>)] }
    /\ hist = <<>>
    /\ pc = "ready"
    /\ run = IdleRun
    /\ tail_out = IdleResult
    /\ pairs_str = <<>>
    /\ parsed = IdleResult

Next ==
    \/ WriteToLogfile
    \/ ErrorHandler
    \/ Engage
    \/ EndOfLine
    \/ CreateNewOutputFile
    \/ WriteToFile

Spec == Init /\ [][Next]_vars

------------------------------------------------------------
\* One run of main.py: the process dispatches once and exits.

OperationNames == OPERATIONS \cup { "delete_everything", "Backup_acl" }

\* The parameter names a handler may declare: some of the namespace, and
\* one the namespace does not hold.
ParameterNames ==
    { "api_key", "service_name", "dictionary_name", "ips", "timeout" }

\* Strings may be empty; the parsed dictionary and the nargs="+" lists
\* hold at least one item when given.
Strings == { Value(""), Value("v") }
Namespace(name, key, dict_name, acl, pairs, items, ips) ==
    [a \in ArgNames |->
        CASE a = "operation" -> Value(name)
          [] a = "api_key" -> key
          [] a = "service_name" -> Value("v")
          [] a = "dictionary_name" -> dict_name
          [] a = "acl_name" -> acl
          [] a = "input_dictionary" -> pairs
          [] a = "dictionary_items" -> items
          [] a = "ips" -> ips]

Namespaces(name) ==
    { Namespace(name, key, dict_name, acl, pairs, items, ips) :
        key \in Strings,
        dict_name \in Strings \cup { None }, acl \in Strings \cup { None },
        pairs \in { None, Value("v") }, items \in { None, Value("v") },
        ips \in { None, Value("v") } }

Main ==
    /\ pc = "ready"
    /\ \E name \in OperationNames, parameters \in SUBSET ParameterNames,
          outcome \in HandlerOutcomes :
        \E args \in Namespaces(name) :
            LET declared == IF name \in OPERATIONS THEN parameters ELSE {}
                result == IF name \in OPERATIONS THEN outcome ELSE ""
                r == main(fs, args, declared, result)
            IN  /\ fs' = r.fs
                /\ run' = [args |-> args, parameters |-> declared,
                           outcome |-> result, calls |-> r.calls,
                           before |-> fs, exc |-> r.exc]
    /\ pc' = "exited"
    /\ UNCHANGED <<hist, tail_out, pairs_str, parsed>>

InitMain ==
    /\ fs \in { NoFiles, [NoFiles EXCEPT ![LOGFILE] = File(EarlierLine)] }
    /\ hist = <<>>
    /\ pc = "ready"
    /\ run = IdleRun
    /\ tail_out = IdleResult
    /\ pairs_str = <<>>
    /\ parsed = IdleResult

NextMain == Main

SpecMain == InitMain /\ [][NextMain]_vars

------------------------------------------------------------
\* last_line_of_file on every small file.

TailBytes == { NL, Ch("a"), Ch("b"), BadByte }

TailLine ==
    /\ ~tail_out.done
    /\ tail_out' = Done(last_line_of_file(fs, LOGFILE))
    /\ UNCHANGED <<fs, hist, pc, run, pairs_str, parsed>>

InitTail ==
    /\ fs \in { NoFiles } \cup
              { [NoFiles EXCEPT ![LOGFILE] = File(data)] :
                    data \in StringsOver(TailBytes, MaxFileLen) }
    /\ hist = <<>>
    /\ pc = "ready"
    /\ run = IdleRun
    /\ tail_out = IdleResult
    /\ pairs_str = <<>>
    /\ parsed = IdleResult

NextTail == TailLine

SpecTail == InitTail /\ [][NextTail]_vars

------------------------------------------------------------
\* parse_key_value_pairs on every short argument string.

PairChars == { "a", "b", ":", "," }

Parse ==
    /\ ~parsed.done
    /\ parsed' = Done(parse_key_value_pairs(pairs_str))
    /\ UNCHANGED <<fs, hist, pc, run, tail_out, pairs_str>>

InitParse ==
    /\ fs = NoFiles
    /\ hist = <<>>
    /\ pc = "ready"
    /\ run = IdleRun
    /\ tail_out = IdleResult
    /\ pairs_str \in StringsOver(PairChars, MaxStrLen)
    /\ parsed = IdleResult

NextParse == Parse

SpecParse == InitParse /\ [][NextParse]_vars

----------------------------------------------------------------------------
\* Properties of main.py, under SpecMain.

Name == run.args["operation"].v
LoggedByMain == Added(run.before, fs)

\* One line of the log: a newline, then text without a newline.
IsOneLine(text) == text # <<>> /\ text[1] = NL /\ Count(NL, text) = 1
Holds(text, symbol) == \E i \in 1..Len(text) : text[i] = symbol
IsErrorLine(text) ==
    IsOneLine(text) /\ \E i \in 1..Len(text) : text[i].k = "error"

\* C1: every call of the handler is given exactly the declared parameter
\* names that are keys of the request with a value that is not None, each
\* with the request's value: nothing undeclared, nothing None, nothing
\* left out.
C1_ExactBinding ==
    pc = "exited" =>
        \A i \in 1..Len(run.calls) :
            LET kw == run.calls[i]
            IN  /\ DOMAIN kw \subseteq run.parameters
                /\ \A p \in DOMAIN kw : kw[p] # None
                /\ \A p \in run.parameters :
                       (p \in DOMAIN run.args /\ run.args[p] # None)
                           => (p \in DOMAIN kw /\ kw[p] = run.args[p])
                /\ DOMAIN kw \subseteq DOMAIN run.args

\* A run that binds: the handler declares a name given as None, a name the
\* request does not hold and a name given as "", and the request holds a
\* value the handler did not declare.
C1_Witness ==
    /\ pc = "exited"
    /\ Len(run.calls) = 1
    /\ run.parameters = { "api_key", "dictionary_name", "timeout" }
    /\ run.args["api_key"] = Value("")
    /\ run.args["dictionary_name"] = None
    /\ run.args["ips"] = Value("v")
    /\ DOMAIN run.calls[1] = { "api_key" }

\* C2: a name that is no key of OPERATIONS calls no handler, adds exactly
\* one error line holding that name to the log and ends main() with an
\* exception; a key of OPERATIONS reaches its handler, and no such line is
\* logged.
C2_UnknownOperation ==
    pc = "exited" =>
        /\ Name \notin OPERATIONS =>
              /\ run.calls = <<>>
              /\ IsErrorLine(LoggedByMain)
              /\ Holds(LoggedByMain, DoesNotExist(Name))
              /\ run.exc # ""
        /\ Name \in OPERATIONS =>
              /\ Len(run.calls) >= 1
              /\ ~Holds(LoggedByMain, DoesNotExist(Name))

\* A name that differs from a key only in case is refused.
C2_Witness ==
    /\ pc = "exited"
    /\ Name = "Backup_acl"
    /\ run.calls = <<>>
    /\ run.exc = "Exception"
    /\ Holds(LogOf(fs), DoesNotExist("Backup_acl"))

\* C3: a registered operation's handler is called exactly once; main()
\* returns only if the handler returned a true value; a false or negative
\* value adds exactly one error line "Operation, <name>, has failed." to
\* the log and raises; an exception of the handler is raised again.
C3_HandlerResult ==
    (pc = "exited" /\ Name \in OPERATIONS) =>
        /\ Len(run.calls) = 1
        /\ run.exc = "" => run.outcome = "True"
        /\ run.outcome \in { "False", "None" } =>
              /\ IsErrorLine(LoggedByMain)
              /\ Holds(LoggedByMain, HasFailed(Name))
              /\ run.exc # ""
        /\ run.outcome = "raise" => (run.exc # "" /\ LoggedByMain = <<>>)
        /\ run.outcome = "True" => (run.exc = "" /\ LoggedByMain = <<>>)

\* A handler that returns nothing fails its operation.
C3_Witness ==
    /\ pc = "exited"
    /\ Name = "backup_acl"
    /\ run.outcome = "None"
    /\ run.exc = "Exception"
    /\ Holds(LogOf(fs), HasFailed("backup_acl"))

----------------------------------------------------------------------------
\* Properties of parse_key_value_pairs, under SpecParse.

Pieces == Split(pairs_str, ",")
KeyOf(piece) == Split(piece, ":")[1]
ValueOf(piece) == Split(piece, ":")[2]
WellFormed == \A i \in 1..Len(Pieces) : Count(":", Pieces[i]) = 1
Keys == { KeyOf(Pieces[i]) : i \in 1..Len(Pieces) }
LastWith(key) ==
    CHOOSE i \in 1..Len(Pieces) :
        /\ KeyOf(Pieces[i]) = key
        /\ \A j \in (i + 1)..Len(Pieces) : KeyOf(Pieces[j]) # key

\* C8 as stated: a mapping comes back exactly when every comma-separated
\* piece has one colon, it maps every piece's first part to that piece's
\* second part, and every other input raises the formatting error.
C8_EveryPieceMapped ==
    parsed.done =>
        /\ parsed.exc = "" <=> WellFormed
        /\ parsed.exc # "" => parsed.exc = "ArgumentTypeError"
        /\ WellFormed =>
              /\ DOMAIN parsed.value = Keys
              /\ \A i \in 1..Len(Pieces) :
                     parsed.value[KeyOf(Pieces[i])] = ValueOf(Pieces[i])

\* C8, amended: as above, but a key that several pieces share is mapped to
\* the second part of the last of them.
C8_LastPieceWins ==
    parsed.done =>
        /\ parsed.exc = "" <=> WellFormed
        /\ parsed.exc # "" => parsed.exc = "ArgumentTypeError"
        /\ WellFormed =>
              /\ DOMAIN parsed.value = Keys
              /\ \A key \in Keys :
                     parsed.value[key] = ValueOf(Pieces[LastWith(key)])

\* "a:b,a:a" parses, and maps a to the later value.
C8_Witness ==
    /\ parsed.done
    /\ pairs_str = << "a", ":", "b", ",", "a", ":", "a" >>
    /\ parsed.exc = ""
    /\ parsed.value[<< "a" >>] = << "a" >>

----------------------------------------------------------------------------
\* Properties of last_line_of_file, under SpecTail.

Content == fs[LOGFILE].data
Lines == Split(Content, NL)
EndsWithNewline == Content # <<>> /\ Last(Content) = NL
\* The lines of the file, a final newline ending the last of them.
NumLines ==
    IF Content = <<>> THEN 0
    ELSE IF EndsWithNewline THEN Len(Lines) - 1 ELSE Len(Lines)
FinalLineText ==
    IF Content = <<>> THEN <<>>
    ELSE IF EndsWithNewline THEN Lines[Len(Lines) - 1] ELSE Last(Lines)
FinalLine ==
    IF EndsWithNewline THEN Append(FinalLineText, NL) ELSE FinalLineText
Decodable(text) == \A i \in 1..Len(text) : text[i] # BadByte

\* C6 as stated: on an existing file nothing is raised; of two or more
\* lines the final line's text comes back without its newline; a single
\* line comes back whole; an empty file gives the empty string.
C6_FinalLineWithoutNewline ==
    (tail_out.done /\ fs[LOGFILE].exists) =>
        /\ tail_out.exc = ""
        /\ NumLines >= 2 => tail_out.value = FinalLineText
        /\ NumLines = 1 => tail_out.value = Content
        /\ NumLines = 0 => tail_out.value = <<>>

\* C6, amended: on an existing file whose final line is valid UTF-8 nothing
\* is raised, and the final line comes back with the newline that ends it
\* when the file ends with one; a single line comes back whole; an empty
\* file gives the empty string.
C6_FinalLineAsRead ==
    (tail_out.done /\ fs[LOGFILE].exists /\ Decodable(FinalLine)) =>
        /\ tail_out.exc = ""
        /\ NumLines >= 2 => tail_out.value = FinalLine
        /\ NumLines = 1 => tail_out.value = Content
        /\ NumLines = 0 => tail_out.value = <<>>

\* "a\nb\n" gives "b\n".
C6_Witness ==
    /\ tail_out.done
    /\ Content = << Ch("a"), NL, Ch("b"), NL >>
    /\ tail_out.exc = ""
    /\ tail_out.value = << Ch("b"), NL >>

----------------------------------------------------------------------------
\* Properties of the logger, under Spec.

NoticeText(filename) == << Notice(filename) >>
NoticesInLog(filename) == Count(Notice(filename), LogOf(fs))

\* Calls i and i+1 are write_to_file for one data file, and nothing else
\* wrote to the log between them (a row for the log file itself would).
ConsecutiveWrites(i) ==
    /\ hist[i].op = "write_to_file"
    /\ hist[i + 1].op = "write_to_file"
    /\ hist[i].filename = hist[i + 1].filename
    /\ hist[i].filename # LOGFILE

\* C4: of two write_to_file calls for the same file with no other write
\* to the log between them, the second adds no notice, so that the two add
\* it at most once, and each of the two adds its row to the data file.
C4_NoticeOnceRowsTwice ==
    \A i \in 1..(Len(hist) - 1) :
        ConsecutiveWrites(i) =>
            /\ hist[i + 1].notices = 0
            /\ hist[i].notices + hist[i + 1].notices <= 1
            /\ hist[i].rows = 1
            /\ hist[i + 1].rows = 1

\* Two rows for one file, one notice.
C4_Witness ==
    /\ Len(hist) = 2
    /\ ConsecutiveWrites(1)
    /\ hist[1].filename = "out.csv"
    /\ hist[1].notices = 1
    /\ hist[2].notices = 0
    /\ NoticesInLog("out.csv") = 1
    /\ Count(CR, fs["out.csv"].data) = 2

\* The last three calls: write_to_file, one write_to_logfile, and
\* write_to_file for the same file again.
WriteLineWrite ==
    /\ Len(hist) >= 3
    /\ hist[Len(hist) - 2].op = "write_to_file"
    /\ hist[Len(hist) - 1].op = "write_to_logfile"
    /\ hist[Len(hist)].op = "write_to_file"
    /\ hist[Len(hist)].filename = hist[Len(hist) - 2].filename

\* C5 as stated: after a write_to_logfile call with any text other than
\* the notice, the empty string included, between two write_to_file calls
\* for the same file, the second of them adds the notice again.
C5_AnyOtherText ==
    (/\ WriteLineWrite
     /\ hist[Len(hist) - 1].text # NoticeText(hist[Len(hist)].filename))
        => hist[Len(hist)].notices = 1

\* C5, amended: the text written between the two calls is not empty and
\* does not contain the notice; then the second call adds the notice
\* again, and the log holds it twice.
C5_OtherNonEmptyText ==
    (/\ WriteLineWrite
     /\ hist[Len(hist) - 1].text # <<>>
     /\ ~IsSubstring(NoticeText(hist[Len(hist)].filename),
                     hist[Len(hist) - 1].text))
        => /\ hist[Len(hist)].notices = 1
           /\ NoticesInLog(hist[Len(hist)].filename) >= 2

\* The notice, another line, the notice again.
C5_Witness ==
    /\ WriteLineWrite
    /\ hist[Len(hist)].filename = "out.csv"
    /\ hist[Len(hist) - 2].notices = 1
    /\ hist[Len(hist) - 1].text = << Ch("x") >>
    /\ hist[Len(hist)].notices = 1
    /\ NoticesInLog("out.csv") = 2

\* C7: no call of the logger rewrites or deletes what the log holds: the
\* log before the call is a prefix of the log after it, whatever file
\* names the call is given.
C7_LogOnlyGrows == \A i \in 1..Len(hist) : hist[i].kept

\* C9: write_to_logfile adds the start-of-script banner as it is, without
\* the "[date time, file: line] " prefix; any other text that is not empty
\* with the prefix; for the empty string only a newline.
C9_BannerVerbatim ==
    \A i \in 1..Len(hist) :
        hist[i].op = "write_to_logfile" =>
            IF hist[i].text = START_SCRIPT
            THEN hist[i].added = << NL >> \o START_SCRIPT
            ELSE IF hist[i].text = <<>>
            THEN hist[i].added = << NL >>
            ELSE /\ Len(hist[i].added) = Len(hist[i].text) + 3
                 /\ hist[i].added[1] = NL
                 /\ hist[i].added[2].k = "prefix"
                 /\ SubSeq(hist[i].added, 3, Len(hist[i].added) - 1) = hist[i].text

\* C10: the prefix of every entry names the file and the line of the call
\* site outside the logger that made the call, also when the entry is
\* written by a logger function on the caller's behalf.
C10_CallSiteAttribution ==
    \A i \in 1..Len(hist) :
        \A j \in 1..Len(hist[i].added) :
            hist[i].added[j].k = "prefix" =>
                /\ hist[i].added[j].f = BaseName(hist[i].site.path)
                /\ hist[i].added[j].n = hist[i].site.line

\* C10 for the calls of write_to_logfile made from outside the logger.
C10_DirectCalls ==
    \A i \in 1..Len(hist) :
        hist[i].op = "write_to_logfile" =>
            \A j \in 1..Len(hist[i].added) :
                hist[i].added[j].k = "prefix" =>
                    /\ hist[i].added[j].f = BaseName(hist[i].site.path)
                    /\ hist[i].added[j].n = hist[i].site.line

====
